---- MODULE Spec2Model ----
(***************************************************************************)
(* Voice-note store, microphone capture and transcription pipeline of the  *)
(* sticky-notes hub (src/src/main.cpp, src/unnamed/part_001).              *)
(*                                                                         *)
(* Representation of C++ values:                                           *)
(*   - a std::string that is ordered or edited (note base names, note      *)
(*     text) is a sequence of character codes;                             *)
(*   - a file extension is a TLA+ string (only compared for equality);     *)
(*   - a directory string is the sequence of its components and            *)
(*     separators, so that empty() and back() are Len = 0 and the last     *)
(*     element;                                                            *)
(*   - a file path is the record of the directory string it was built      *)
(*     from, the stem and the extension; the empty path is the record of   *)
(*     three empty parts.                                                  *)
(* The display label Note::created is not part of the model.               *)
(***************************************************************************)
EXTENDS Integers, Sequences, FiniteSets, TLC

\* ---------------------------------------------------------------- bounds
MaxClock     == 4     \* seconds the clock may advance
FirstSecond  == 58    \* second-of-hour shown by the clock when it reads 0
MaxNotes     == 3     \* length of the in-memory note list
MaxTextLen   == 16    \* characters in an edited text
MaxOps       == 3     \* store calls made by an API client
MaxDirFiles  == 3     \* entries in a directory the store is pointed at
MaxCapture   == 2     \* samples delivered during one capture
MaxEvents    == 3     \* key presses and clicks handled in a run of the window
MaxChannels  == 2     \* channel count of a sound buffer given to the downmix
MaxSamples   == 3     \* samples of a sound buffer given to the downmix

\* ------------------------------------------------------- string helpers
Min(a, b) == IF a < b THEN a ELSE b

Last(s) == s[Len(s)]

Front(s) == SubSeq(s, 1, Len(s) - 1)

\* std::string operator< : lexicographic order on character codes
StrLess(a, b) ==
  \E k \in 1..(Min(Len(a), Len(b)) + 1) :
     /\ \A j \in 1..(k - 1) : a[j] = b[j]
     /\ \/ k > Len(a) /\ k <= Len(b)
        \/ k <= Len(a) /\ k <= Len(b) /\ a[k] < b[k]

\* std::string operator>
StrGreater(a, b) == StrLess(b, a)

\* character codes used in names and texts
ChNL == 10

\* the printable characters a TextEntered event delivers in the model
TypedChars == {120}

\* "note_"
NotePrefix == <<110, 111, 116, 101, 95>>

\* "New note\n"
NewNoteText == <<78, 101, 119, 32, 110, 111, 116, 101, 10>>

\* "Take a note...\n"
TakeNoteText == <<84, 97, 107, 101, 32, 97, 32, 110, 111, 116, 101, 46, 46, 46, 10>>

\* %M or %S : a zero-padded two-digit decimal field
TwoDigits(v) == <<48 + (v \div 10), 48 + (v % 10)>>

\* The clock reads seconds since the start of the modelled window; the
\* date and hour fields of the stamp are constant over the window and are
\* left out, the minute and second fields are formatted as strftime does.
StampFields(t) ==
  LET s == FirstSecond + t
  IN  TwoDigits((s \div 60) % 60) \o <<45>> \o TwoDigits(s % 60)

\* main.cpp makeTimestampBase: "note_%Y-%m-%d_%H-%M-%S"
makeTimestampBase(t) == NotePrefix \o StampFields(t)

\* part_001 getTimestamp: "%Y-%m-%d_%H-%M-%S"
getTimestamp(t) == StampFields(t)

\* ------------------------------------------------------------- paths
Seps == {"/", "\\"}

EmptyStr == <<>>

VoiceNotesDefault == <<"voice_notes", "/">>

EmptyPath == [dir |-> EmptyStr, stem |-> EmptyStr, ext |-> ""]

MkPath(dir, stem, ext) == [dir |-> dir, stem |-> stem, ext |-> ext]

\* main.cpp normalizedVoiceDir
normalizedVoiceDir(path) ==
  LET d1 == IF path = EmptyStr THEN VoiceNotesDefault ELSE path
  IN  IF Last(d1) \notin Seps THEN Append(d1, "/") ELSE d1

\* part_001 stopRecordAudioFromMicrophone, lines 164-165
stopDir(path) ==
  IF path # EmptyStr /\ Last(path) \notin Seps THEN Append(path, "/") ELSE path

\* The directory a directory string names: a trailing separator does not
\* change it, the empty string is the working directory.
DirOf(d) == IF d # EmptyStr /\ Last(d) \in Seps THEN Front(d) ELSE d

\* ------------------------------------------------------- file system
\* fs.dirs  : the directories that exist
\* fs.files : the directory entries, in the order a listing returns them
Cwd == EmptyStr

FileAt(fs, p) ==
  LET hits == {i \in 1..Len(fs.files) :
                 /\ fs.files[i].dir  = DirOf(p.dir)
                 /\ fs.files[i].stem = p.stem
                 /\ fs.files[i].ext  = p.ext}
  IN  IF hits = {} THEN 0 ELSE CHOOSE i \in hits : TRUE

DirExists(fs, d) == DirOf(d) \in fs.dirs

Listing(fs, d) == SelectSeq(fs.files, LAMBDA e : e.dir = DirOf(d))

\* std::filesystem::create_directories
MkDirs(fs, d) == [fs EXCEPT !.dirs = @ \cup {DirOf(d)}]

\* main.cpp slurp: the whole file, or the empty string when it cannot be
\* opened for reading
slurp(fs, p) ==
  LET i == FileAt(fs, p)
  IN  IF i = 0 THEN EmptyStr
      ELSE IF fs.files[i].kind # "file" \/ fs.files[i].acc = "none" THEN EmptyStr
      ELSE fs.files[i].data

\* an ofstream on p can be opened (std::ios::trunc or default out mode)
CanOpenForWrite(fs, p) ==
  LET i == FileAt(fs, p)
  IN  /\ p # EmptyPath
      /\ DirExists(fs, p.dir)
      /\ i # 0 => fs.files[i].kind = "file" /\ fs.files[i].acc = "rw"

\* the file system after p has been opened with truncation and data written
WriteFile(fs, p, data) ==
  LET i == FileAt(fs, p)
  IN  IF i # 0
      THEN [fs EXCEPT !.files[i].data = data]
      ELSE [fs EXCEPT !.files = Append(@,
              [dir |-> DirOf(p.dir), stem |-> p.stem, ext |-> p.ext,
               kind |-> "file", acc |-> "rw", data |-> data])]

\* spit opened without std::ios::trunc on a stream that does not truncate:
\* the bytes of the old content beyond the new data stay in the file
spit_noTrunc(fs, p, data) ==
  IF ~CanOpenForWrite(fs, p) THEN <<FALSE, fs>>
  ELSE LET i   == FileAt(fs, p)
           old == IF i = 0 THEN <<>> ELSE fs.files[i].data
       IN  <<TRUE, WriteFile(fs, p,
                     data \o SubSeq(old, Len(data) + 1, Len(old)))>>

\* main.cpp spit: <<returned bool, file system afterwards>>
spit(fs, p, data) ==
  IF ~CanOpenForWrite(fs, p) THEN <<FALSE, fs>>
  ELSE <<TRUE, WriteFile(fs, p, data)>>

\* --------------------------------------------------------- note store
\* main.cpp struct Note (a default-constructed Note has four empty strings)
EmptyNote == [base |-> EmptyStr, txtPath |-> EmptyPath, wavPath |-> EmptyPath,
              text |-> EmptyStr]

IsTxtExt(ext) == ext = ".txt" \/ ext = ".TXT"

IsWavExt(ext) == ext = ".wav" \/ ext = ".WAV"

\* the loop body with the map keyed by the whole file name, not the stem
ScanEntry_byFileName(map, dir, p) ==
  LET key  == <<p.stem, p.ext>>
      path == MkPath(dir, p.stem, p.ext)
      put(n) == [s \in (DOMAIN map) \cup {key} |->
                   IF s = key THEN n ELSE map[s]]
  IN  IF p.kind # "file" THEN map
      ELSE IF IsTxtExt(p.ext)
        THEN put([EmptyNote EXCEPT !.base = p.stem, !.txtPath = path])
      ELSE IF IsWavExt(p.ext)
        THEN put([EmptyNote EXCEPT !.base = p.stem, !.wavPath = path])
      ELSE map

\* the loop body with the map entry made (auto& n = map[stem]) before the
\* extension is looked at
ScanEntry_anyExt(map, dir, p) ==
  LET old  == IF p.stem \in DOMAIN map THEN map[p.stem] ELSE EmptyNote
      path == MkPath(dir, p.stem, p.ext)
      put(n) == [s \in (DOMAIN map) \cup {p.stem} |->
                   IF s = p.stem THEN n ELSE map[s]]
  IN  IF p.kind # "file" THEN map
      ELSE IF IsTxtExt(p.ext)
        THEN put([old EXCEPT !.base = p.stem, !.txtPath = path])
      ELSE IF IsWavExt(p.ext)
        THEN put([old EXCEPT !.base = p.stem, !.wavPath = path])
      ELSE put([old EXCEPT !.base = p.stem])

\* main.cpp scanVoiceNotes, the body of the directory_iterator loop for one
\* entry p: map is the unordered_map so far, as a function on its keys
ScanEntry(map, dir, p) ==
  LET old  == IF p.stem \in DOMAIN map THEN map[p.stem] ELSE EmptyNote
      path == MkPath(dir, p.stem, p.ext)
      put(n) == [s \in (DOMAIN map) \cup {p.stem} |->
                   IF s = p.stem THEN n ELSE map[s]]
  IN  IF p.kind # "file" THEN map
      ELSE IF IsTxtExt(p.ext)
        THEN put([old EXCEPT !.base = p.stem, !.txtPath = path])
      ELSE IF IsWavExt(p.ext)
        THEN put([old EXCEPT !.base = p.stem, !.wavPath = path])
      ELSE map

RECURSIVE ScanLoop(_, _, _, _)
\* the directory_iterator loop over entries k..Len(listing)
ScanLoop(map, dir, listing, k) ==
  IF k > Len(listing) THEN map
  ELSE ScanLoop(ScanEntry(map, dir, listing[k]), dir, listing, k + 1)

\* main.cpp scanVoiceNotes, "load text + created": one map value
LoadNote(fs, n) ==
  IF n.txtPath # EmptyPath THEN [n EXCEPT !.text = slurp(fs, n.txtPath)] ELSE n

RECURSIVE MapValues(_, _)
\* the values of the map in an iteration order of the unordered_map
MapValues(fs, map) ==
  IF DOMAIN map = {} THEN <<>>
  ELSE LET s    == CHOOSE x \in DOMAIN map : TRUE
           rest == [t \in (DOMAIN map) \ {s} |-> map[t]]
       IN  <<LoadNote(fs, map[s])>> \o MapValues(fs, rest)

\* the comparator with the order of its operands swapped (oldest first)
NoteBefore_ascending(a, b) == StrLess(a.base, b.base)

\* the comparator of the std::sort in scanVoiceNotes
NoteBefore(a, b) == StrGreater(a.base, b.base)

RECURSIVE InsertSorted(_, _)
InsertSorted(sorted, n) ==
  IF sorted = <<>> THEN <<n>>
  ELSE IF NoteBefore(n, Head(sorted)) THEN <<n>> \o sorted
  ELSE <<Head(sorted)>> \o InsertSorted(Tail(sorted), n)

RECURSIVE SortNotes(_)
\* std::sort(out.begin(), out.end(), comparator)
SortNotes(out) ==
  IF out = <<>> THEN <<>>
  ELSE InsertSorted(SortNotes(Tail(out)), Head(out))

\* scanVoiceNotes leaving a first note file behind when it has to create
\* the directory
scanVoiceNotes_seeding(fs, voicePath) ==
  LET dir     == normalizedVoiceDir(voicePath)
      listing == Listing(fs, dir)
  IN  IF ~DirExists(fs, dir)
        THEN [out |-> <<>>,
              fs  |-> WriteFile(MkDirs(fs, dir), MkPath(dir, NotePrefix, ".txt"),
                                NewNoteText)]
      ELSE IF \E k \in 1..Len(listing) : listing[k].kind = "bad"
        THEN [out |-> <<>>, fs |-> fs]
      ELSE [out |-> SortNotes(MapValues(fs, ScanLoop(<<>>, dir, listing, 1))),
            fs  |-> fs]

\* scanVoiceNotes returning at once, without create_directories, when the
\* directory is missing
scanVoiceNotes_noMkdir(fs, voicePath) ==
  LET dir     == normalizedVoiceDir(voicePath)
      listing == Listing(fs, dir)
  IN  IF ~DirExists(fs, dir)
        THEN [out |-> <<>>, fs |-> fs]
      ELSE IF \E k \in 1..Len(listing) : listing[k].kind = "bad"
        THEN [out |-> <<>>, fs |-> fs]
      ELSE [out |-> SortNotes(MapValues(fs, ScanLoop(<<>>, dir, listing, 1))),
            fs  |-> fs]

\* main.cpp scanVoiceNotes: [out: the returned vector, fs: the file system
\* afterwards].  Examining an entry of kind "bad" throws inside the
\* directory_iterator loop; catch (...) then returns out, still empty.
scanVoiceNotes(fs, voicePath) ==
  LET dir     == normalizedVoiceDir(voicePath)
      listing == Listing(fs, dir)
  IN  IF ~DirExists(fs, dir)
        THEN [out |-> <<>>, fs |-> MkDirs(fs, dir)]
      ELSE IF \E k \in 1..Len(listing) : listing[k].kind = "bad"
        THEN [out |-> <<>>, fs |-> fs]
      ELSE [out |-> SortNotes(MapValues(fs, ScanLoop(<<>>, dir, listing, 1))),
            fs  |-> fs]

\* main.cpp saveNoteText: <<returned bool, file system afterwards>>
saveNoteText(fs, n) ==
  IF n.txtPath = EmptyPath THEN <<FALSE, fs>> ELSE spit(fs, n.txtPath, n.text)

\* main.cpp createNewTextNote at clock reading t: [note, fs]
createNewTextNote(fs, voicePath, t) ==
  LET dir  == normalizedVoiceDir(voicePath)
      fs1  == MkDirs(fs, dir)
      base == makeTimestampBase(t)
      txt  == MkPath(dir, base, ".txt")
      wav  == MkPath(dir, base, ".wav")
  IN  [note |-> [base |-> base, txtPath |-> txt, wavPath |-> wav,
                 text |-> NewNoteText],
       fs   |-> spit(fs1, txt, NewNoteText)[2]]

\* ------------------------------------------------------------- state
VARIABLES
  now,            \* clock reading, in seconds (system_clock and steady_clock)
  voicePath,      \* Settings::voice_notes_path
  fs,             \* the file system
  notes,          \* main(): std::vector<Note> notes
  selected,       \* main(): int selected, 0-based
  isRecording,    \* main(): bool isRecording
  requestSaveAt,  \* main(): requestSaveAt
  winOpen,        \* main(): win.isOpen()
  rec,            \* part_001: sf::SoundBufferRecorder recorder
  pc,             \* position inside stopRecordAudioFromMicrophone
  run,            \* locals and results of the current / last pipeline run
  log,            \* calls made by a client of the store or capture API
  dirtySince,     \* when the oldest edit not yet saved was typed (-1: none)
  events          \* key presses and clicks handled so far

vars == <<now, voicePath, fs, notes, selected, isRecording, requestSaveAt,
          winOpen, rec, pc, run, log, dirtySince, events>>

\* a sound buffer is [rate, ch, samples]; a WAV file holds the sample
\* rate, the channel count, then the interleaved samples
WavBytes(buf) == <<buf.rate, buf.ch>> \o buf.samples

\* sf::SoundBuffer::loadFromFile on the bytes of a WAV file
WavBuffer(bytes) ==
  [rate |-> bytes[1], ch |-> bytes[2], samples |-> SubSeq(bytes, 3, Len(bytes))]

WHISPER_SAMPLE_RATE == 16000

\* what sf::SoundRecorder captures with when start() is given no arguments
CaptureRate == 44100

CaptureChannels == 1

\* a default-constructed sf::SoundBuffer
EmptyBuffer == [rate |-> CaptureRate, ch |-> CaptureChannels, samples |-> <<>>]

OneSampleWav == WavBytes([rate |-> WHISPER_SAMPLE_RATE, ch |-> 1, samples |-> <<0>>])

\* the global recorder: capturing (a capture is running), samples (what the
\* running capture has delivered so far), buffer (what getBuffer() returns)
IdleRecorder == [capturing |-> FALSE, samples |-> <<>>, buffer |-> EmptyBuffer]

\* the locals of stopRecordAudioFromMicrophone / sendAudioFileToWhisper, what
\* the run has done so far (wavSaved, txtMade, engine), and the values the
\* capture functions returned last (-1: not returned yet)
NoRun == [baseName |-> EmptyStr, audioPath |-> EmptyPath, textPath |-> EmptyPath,
          wavSaved |-> FALSE, txtMade |-> FALSE, engine |-> FALSE,
          pcm |-> <<>>, segs |-> <<>>,
          startRet |-> -1, sendRet |-> -1, stopRet |-> -1]

\* the variables of main() and of the capture code before the program has
\* done anything with them
Quiet ==
  /\ notes = <<>>
  /\ selected = 0
  /\ isRecording = FALSE
  /\ requestSaveAt = 0
  /\ winOpen = FALSE
  /\ rec = IdleRecorder
  /\ pc = "idle"
  /\ run = NoRun
  /\ dirtySince = -1
  /\ events = 0

Entry(d, stem, ext, kind, acc, data) ==
  [dir |-> d, stem |-> stem, ext |-> ext, kind |-> kind, acc |-> acc,
   data |-> data]

\* the directory scanVoiceNotes reads under the current setting
Home == DirOf(normalizedVoiceDir(voicePath))

HomeOf(path) == DirOf(normalizedVoiceDir(path))

\* sequences of n entries of pool with pairwise different file names
DirSeqs(pool, n) ==
  {f \in [1..n -> pool] :
     \A i, j \in 1..n : i # j =>
        ~(f[i].stem = f[j].stem /\ f[i].ext = f[j].ext)}

StemA == makeTimestampBase(0)

StemB == makeTimestampBase(2)

StemM == <<109>>

\* ------------------------------------------- reconcile as a function
\* The entries a scanned directory is drawn from: paired and unpaired
\* files, both spellings the code tests for, mixed-case and foreign
\* extensions, an unreadable text file and a sub-directory named like a
\* recording.
ScanPool(d) ==
  { Entry(d, StemA, ".txt", "file", "rw", <<120>>),
    Entry(d, StemA, ".wav", "file", "rw", OneSampleWav),
    Entry(d, StemA, ".TXT", "file", "rw", <<120, 120>>),
    Entry(d, StemB, ".txt", "file", "rw", <<>>),
    Entry(d, StemB, ".wav", "file", "rw", OneSampleWav),
    Entry(d, StemB, ".WAV", "file", "rw", OneSampleWav),
    Entry(d, StemM, ".txt", "file", "none", <<120>>),
    Entry(d, StemM, ".wav", "dir", "rw", <<>>),
    Entry(d, StemM, ".ogg", "file", "rw", <<>>),
    Entry(d, StemM, ".Txt", "file", "rw", <<120>>),
    Entry(d, StemA, ".Wav", "file", "rw", OneSampleWav) }

ScanPaths == {EmptyStr, <<"d">>}

InitScan ==
  /\ Quiet
  /\ now = 0
  /\ log = <<>>
  /\ voicePath \in ScanPaths
  /\ \/ fs = [dirs |-> {Cwd}, files |-> <<>>]
     \/ \E n \in 0..MaxDirFiles :
          \E f \in DirSeqs(ScanPool(HomeOf(voicePath)), n) :
             fs = [dirs |-> {Cwd, HomeOf(voicePath)}, files |-> f]

\* a client calls reconcile; the log keeps what was returned and whether
\* the directory was there when the call was made
ClientScan ==
  /\ Len(log) < MaxOps
  /\ LET r == scanVoiceNotes(fs, voicePath)
     IN  /\ fs' = r.fs
         /\ notes' = r.out
         /\ log' = Append(log, [op |-> "scan", ok |-> TRUE, at |-> 0, out |-> r.out,
                                had |-> DirExists(fs, normalizedVoiceDir(voicePath))])
  /\ UNCHANGED <<now, voicePath, selected, isRecording, requestSaveAt,
                 winOpen, rec, pc, run, dirtySince, events>>

NextScan == ClientScan

SpecScan == InitScan /\ [][NextScan]_vars

\* --------------------------- reconcile over a directory that has faults
\* The entries of a directory in which a scan can meet a fault: readable
\* notes, a text file that cannot be opened for reading, and entries whose
\* examination (is_regular_file) raises a filesystem error.
FaultPool(d) ==
  { Entry(d, StemA, ".txt", "file", "rw", <<120>>),
    Entry(d, StemA, ".wav", "file", "rw", OneSampleWav),
    Entry(d, StemB, ".wav", "file", "rw", OneSampleWav),
    Entry(d, StemM, ".txt", "file", "none", <<120>>),
    Entry(d, StemM, ".wav", "bad", "none", <<>>),
    Entry(d, StemB, ".txt", "bad", "none", <<>>) }

InitScanFault ==
  /\ Quiet
  /\ now = 0
  /\ log = <<>>
  /\ voicePath \in ScanPaths
  /\ \E n \in 0..MaxDirFiles :
       \E f \in DirSeqs(FaultPool(HomeOf(voicePath)), n) :
          fs = [dirs |-> {Cwd, HomeOf(voicePath)}, files |-> f]

SpecScanFault == InitScanFault /\ [][NextScan]_vars

\* -------------------------------------------- the store used by a client
\* directories a client of the store starts from
StoreDirs(d) ==
  { [dirs |-> {Cwd}, files |-> <<>>],
    [dirs |-> {Cwd, d}, files |-> <<>>],
    [dirs |-> {Cwd, d},
     files |-> << Entry(d, StemA, ".txt", "file", "rw", <<120, 120>>),
                  Entry(d, StemA, ".wav", "file", "rw", OneSampleWav) >>],
    [dirs |-> {Cwd, d},
     files |-> << Entry(d, StemB, ".wav", "file", "rw", OneSampleWav),
                  Entry(d, StemM, ".txt", "file", "ro", <<120>>) >>],
    [dirs |-> {Cwd, d},
     files |-> << Entry(d, StemM, ".TXT", "file", "rw", <<120, 120>>),
                  Entry(d, StemM, ".txt", "file", "rw", <<>>) >>],
    [dirs |-> {Cwd, d},
     files |-> << Entry(d, StemA, ".txt", "file", "ro", <<120>>) >>] }

\* texts a client puts into a note before saving it
SaveTexts == {EmptyStr, <<120>>, <<120, 10, 120>>}

InitStore ==
  /\ Quiet
  /\ now = 0
  /\ log = <<>>
  /\ voicePath \in ScanPaths
  /\ fs \in StoreDirs(HomeOf(voicePath))

\* a client calls create and keeps the returned Note
ClientCreate ==
  /\ Len(log) < MaxOps
  /\ LET r == createNewTextNote(fs, voicePath, now)
     IN  /\ fs' = r.fs
         /\ notes' = Append(notes, r.note)
         /\ log' = Append(log, [op |-> "create", ok |-> TRUE, at |-> Len(notes) + 1,
                                out |-> <<r.note>>])
  /\ UNCHANGED <<now, voicePath, selected, isRecording, requestSaveAt,
                 winOpen, rec, pc, run, dirtySince, events>>

\* a client edits the text of a Note it holds and calls save
ClientSave(i, text) ==
  /\ Len(log) < MaxOps
  /\ i \in 1..Len(notes)
  /\ LET n == [notes[i] EXCEPT !.text = text]
         r == saveNoteText(fs, n)
     IN  /\ fs' = r[2]
         /\ notes' = [notes EXCEPT ![i] = n]
         /\ log' = Append(log, [op |-> "save", ok |-> r[1], at |-> i, out |-> <<n>>])
  /\ UNCHANGED <<now, voicePath, selected, isRecording, requestSaveAt,
                 winOpen, rec, pc, run, dirtySince, events>>

\* a second of wall-clock time passes between two calls of a client
ClientTick ==
  /\ now < MaxClock
  /\ now' = now + 1
  /\ UNCHANGED <<voicePath, fs, notes, selected, isRecording, requestSaveAt,
                 winOpen, rec, pc, run, log, dirtySince, events>>

NextStore ==
  \/ ClientScan
  \/ ClientCreate
  \/ \E i \in 1..MaxNotes : \E text \in SaveTexts : ClientSave(i, text)
  \/ ClientTick

SpecStore == InitStore /\ [][NextStore]_vars

\* ------------------------------- a save, step by step, and a process exit
\* the program has scanned its directory and holds the notes
InitSave ==
  /\ selected = 0
  /\ isRecording = FALSE
  /\ requestSaveAt = 0
  /\ winOpen = FALSE
  /\ rec = IdleRecorder
  /\ pc = "idle"
  /\ run = NoRun
  /\ dirtySince = -1
  /\ events = 0
  /\ now = 0
  /\ log = <<>>
  /\ voicePath \in ScanPaths
  /\ \E f \in StoreDirs(HomeOf(voicePath)) :
        /\ fs = scanVoiceNotes(f, voicePath).fs
        /\ notes = scanVoiceNotes(f, voicePath).out

Saving == <<now, voicePath, selected, isRecording, requestSaveAt, winOpen,
            rec, run, dirtySince, events>>

\* saveNoteText and the first statement of spit (main.cpp lines 212-213,
\* 130-131): the note's text is edited to text, the file is opened with
\* std::ios::trunc, which empties it; a failed open returns false
SaveOpen(i, text) ==
  /\ pc = "idle"
  /\ Len(log) < MaxOps
  /\ i \in 1..Len(notes)
  /\ LET n == [notes[i] EXCEPT !.text = text]
         opened == n.txtPath # EmptyPath /\ CanOpenForWrite(fs, n.txtPath)
     IN  /\ notes' = [notes EXCEPT ![i] = n]
         /\ fs' = IF opened THEN WriteFile(fs, n.txtPath, EmptyStr) ELSE fs
         /\ pc' = IF opened THEN "spitWrite" ELSE "idle"
         /\ log' = Append(log, [op |-> "save", ok |-> opened, at |-> i,
                                out |-> <<n>>, old |-> slurp(fs, n.txtPath)])
  /\ UNCHANGED Saving

\* f.write (line 132) on a stream whose buffer is smaller than the data:
\* the first k bytes reach the file before the rest
SaveFlush(k) ==
  /\ pc = "spitWrite"
  /\ LET n == log[Len(log)].out[1]
     IN  /\ k > Len(slurp(fs, n.txtPath))
         /\ k < Len(n.text)
         /\ fs' = WriteFile(fs, n.txtPath, SubSeq(n.text, 1, k))
  /\ UNCHANGED <<notes, pc, log>>
  /\ UNCHANGED Saving

\* lines 132-134: the data is written, spit returns true and the stream is
\* closed
SaveClose ==
  /\ pc = "spitWrite"
  /\ LET n == log[Len(log)].out[1]
     IN  fs' = WriteFile(fs, n.txtPath, n.text)
  /\ pc' = "idle"
  /\ UNCHANGED <<notes, log>>
  /\ UNCHANGED Saving

\* the process exits or is killed: its memory is gone, the unwritten part
\* of the stream's buffer with it; the files stay as they are
SaveCrash ==
  /\ pc \in {"idle", "spitWrite"}
  /\ log # <<>>
  /\ pc' = "crashed"
  /\ notes' = <<>>
  /\ log' = Append(log, [op |-> "crash", ok |-> TRUE, at |-> 0, out |-> <<>>,
                         old |-> EmptyStr])
  /\ UNCHANGED fs
  /\ UNCHANGED Saving

\* the program is started again and scans the directory (main.cpp line 759)
SaveRestart ==
  /\ pc = "crashed"
  /\ pc' = "restarted"
  /\ fs' = scanVoiceNotes(fs, voicePath).fs
  /\ notes' = scanVoiceNotes(fs, voicePath).out
  /\ UNCHANGED log
  /\ UNCHANGED Saving

NextSave ==
  \/ \E i \in 1..MaxNotes : \E text \in SaveTexts : SaveOpen(i, text)
  \/ \E k \in 1..MaxTextLen : SaveFlush(k)
  \/ SaveClose
  \/ SaveCrash
  \/ SaveRestart

SpecSave == InitSave /\ [][NextSave]_vars

\* ------------------------------------------------ audio conversion
\* a float sample is kept exactly, as the fraction n / d
Frac(n, d) == [n |-> n, d |-> d]

RECURSIVE SumSeq(_)
SumSeq(q) == IF q = <<>> THEN 0 ELSE Head(q) + SumSeq(Tail(q))

\* the frame divided by 32768 only, not by the channel count
DownmixFrame_noChannelDivide(buf, i) ==
  LET acc == SumSeq(SubSeq(buf.samples, i * buf.ch + 1, i * buf.ch + buf.ch))
      den == 32768
  IN  IF acc > den THEN Frac(den, den)
      ELSE IF acc < -den THEN Frac(-den, den)
      ELSE Frac(acc, den)

\* part_001 lines 45-58: one frame (0-based index i) to a mono float
DownmixFrame(buf, i) ==
  LET acc == SumSeq(SubSeq(buf.samples, i * buf.ch + 1, i * buf.ch + buf.ch))
      den == buf.ch * 32768
  IN  IF acc > den THEN Frac(den, den)
      ELSE IF acc < -den THEN Frac(-den, den)
      ELSE Frac(acc, den)

\* part_001 lines 44-58, for channelCount > 0
downmixToMono(buf) ==
  LET frames == Len(buf.samples) \div buf.ch
  IN  [k \in 1..frames |-> DownmixFrame(buf, k - 1)]

RECURSIVE Gcd(_, _)
Gcd(a, b) == IF b = 0 THEN a ELSE Gcd(b, a % b)

\* line 71 without the + 0.5: the quotient is truncated
OutFrames_truncating(inFrames, inRate, outRate) ==
  (inFrames * (outRate \div Gcd(inRate, outRate))) \div (inRate \div Gcd(inRate, outRate))

\* part_001 line 71: static_cast<size_t>(in_frames * out_rate / in_rate + 0.5)
OutFrames(inFrames, inRate, outRate) ==
  LET g == Gcd(inRate, outRate)
  IN  (2 * inFrames * (outRate \div g) + (inRate \div g)) \div (2 * (inRate \div g))

\* part_001 lines 76-77: idx = floor(i * rate_ratio) for output sample i
\* (0-based); i * rate_ratio is taken exactly, with the two rates reduced
\* by their common divisor
SrcIndex(inRate, outRate, i) ==
  (i * (inRate \div Gcd(inRate, outRate))) \div (outRate \div Gcd(inRate, outRate))

\* line 80 with the test of idx + 1 against in_frames left out
SecondIndex_unchecked(inFrames, idx) == idx + 1

\* line 80: the index v1 is read at: idx + 1 if that is inside the input,
\* else idx again
SecondIndex(inFrames, idx) == IF idx + 1 < inFrames THEN idx + 1 ELSE idx

\* pcmf32[k] (0-based); a read outside the vector is undefined and is
\* given the value 0 here
SampleAt(pcm, k) == IF k >= 0 /\ k < Len(pcm) THEN pcm[k + 1] ELSE [n |-> 0, d |-> 1]

\* part_001 lines 75-82: output sample i (0-based); the samples of one
\* buffer share their denominator.
ResampleAt(pcm, inRate, outRate, i) ==
  LET g   == Gcd(inRate, outRate)
      a   == inRate \div g
      b   == outRate \div g
      idx == SrcIndex(inRate, outRate, i)
      r   == (i * a) % b
      v0  == SampleAt(pcm, idx)
      v1  == SampleAt(pcm, SecondIndex(Len(pcm), idx))
  IN  Frac(v0.n * (b - r) + v1.n * r, v0.d * b)

\* part_001 lines 60-86, for a non-empty input or equal rates
resample(pcm, inRate, outRate) ==
  IF inRate # outRate
    THEN [k \in 1..OutFrames(Len(pcm), inRate, outRate) |->
            ResampleAt(pcm, inRate, outRate, k - 1)]
    ELSE pcm

\* ------------------------------------------------------- capture
\* sf::SoundRecorder::start as the code relies on it: it refuses while a
\* capture is running or when the device does not start; otherwise the
\* recorder's onStart drops the old samples and buffer.
RecorderStart(r, deviceOk) ==
  IF r.capturing \/ ~deviceOk THEN [ok |-> FALSE, rec |-> r]
  ELSE [ok |-> TRUE,
        rec |-> [capturing |-> TRUE, samples |-> <<>>, buffer |-> EmptyBuffer]]

\* sf::SoundRecorder::stop: ends a running capture and, if it delivered
\* samples, makes them the buffer; does nothing when no capture is running
RecorderStop(r) ==
  IF ~r.capturing THEN r
  ELSE [r EXCEPT !.capturing = FALSE,
                 !.samples = <<>>,
                 !.buffer = IF r.samples = <<>> THEN @
                            ELSE [rate |-> CaptureRate, ch |-> CaptureChannels,
                                  samples |-> r.samples]]

\* startRecordAudioFromMicrophone as it was before recorder.start() was
\* tested: the capture is started and 0 returned whatever start() said
startRecordAudioFromMicrophone_unchecked(r, available, deviceOk) ==
  IF ~available THEN [ret |-> 1, rec |-> r]
  ELSE [ret |-> 0, rec |-> RecorderStart(r, deviceOk).rec]

\* part_001 startRecordAudioFromMicrophone: [ret, rec].  available is
\* sf::SoundBufferRecorder::isAvailable(); setDevice's result is ignored.
startRecordAudioFromMicrophone(r, available, deviceOk) ==
  IF ~available THEN [ret |-> 1, rec |-> r]
  ELSE LET st == RecorderStart(r, deviceOk)
       IN  IF ~st.ok THEN [ret |-> 1, rec |-> st.rec]
           ELSE [ret |-> 0, rec |-> st.rec]

\* blocks of samples the capture thread delivers (onProcessSamples)
CaptureBlocks == { <<16384, 16384>> }

\* the capture thread of a running capture delivers a block of samples
Capture ==
  /\ pc = "idle"
  /\ rec.capturing
  /\ \E b \in CaptureBlocks :
        /\ Len(rec.samples) + Len(b) <= MaxCapture
        /\ rec' = [rec EXCEPT !.samples = @ \o b]
  /\ UNCHANGED <<now, voicePath, fs, notes, selected, isRecording, requestSaveAt,
                 winOpen, pc, run, log, dirtySince, events>>

\* ---------------------------------------------- transcription pipeline
\* what happens to the program when it leaves the pipeline function
Pipe == <<now, voicePath, notes, selected, isRecording, requestSaveAt,
          winOpen, log, dirtySince, events>>

\* part_001 stopRecordAudioFromMicrophone lines 155-170: stop the capture,
\* build the names, create the directory.  mkdirThrows: create_directories
\* throws (an empty path is an error for it); nothing catches that.
StopBegin(mkdirThrows) ==
  LET dir  == stopDir(voicePath)
      base == NotePrefix \o getTimestamp(now)
  IN  /\ rec' = RecorderStop(rec)
      /\ run' = [NoRun EXCEPT !.baseName = base,
                              !.audioPath = MkPath(dir, base, ".wav"),
                              !.textPath = MkPath(dir, base, ".txt"),
                              !.startRet = run.startRet]
      /\ IF voicePath = EmptyStr
           THEN /\ fs' = fs
                /\ pc' = IF mkdirThrows THEN "terminated" ELSE "saveWav"
           ELSE /\ fs' = MkDirs(fs, voicePath)
                /\ pc' = "saveWav"

\* saveToFile with its result not looked at: the run goes on to the text
\* file whether or not the audio was written
SaveWav_ignoreFailure(ioOk) ==
  /\ pc = "saveWav"
  /\ IF ioOk /\ CanOpenForWrite(fs, run.audioPath)
       THEN /\ fs' = WriteFile(fs, run.audioPath, WavBytes(rec.buffer))
            /\ run' = [run EXCEPT !.wavSaved = TRUE]
       ELSE /\ fs' = fs
            /\ run' = run
  /\ pc' = "makeTxt"
  /\ UNCHANGED <<rec>>
  /\ UNCHANGED Pipe

\* lines 171-175: buffer.saveToFile(audioPath); ioOk: the write succeeds
SaveWav(ioOk) ==
  /\ pc = "saveWav"
  /\ IF ioOk /\ CanOpenForWrite(fs, run.audioPath)
       THEN /\ fs' = WriteFile(fs, run.audioPath, WavBytes(rec.buffer))
            /\ run' = [run EXCEPT !.wavSaved = TRUE]
            /\ pc' = "makeTxt"
       ELSE /\ fs' = fs
            /\ run' = [run EXCEPT !.stopRet = 1]
            /\ pc' = "ret"
  /\ UNCHANGED <<rec>>
  /\ UNCHANGED Pipe

\* lines 177-179: ofstream out(textPath); the stream state is not looked at
MakeTxt ==
  /\ pc = "makeTxt"
  /\ IF CanOpenForWrite(fs, run.textPath)
       THEN /\ fs' = WriteFile(fs, run.textPath, EmptyStr)
            /\ run' = [run EXCEPT !.txtMade = TRUE]
       ELSE /\ fs' = fs
            /\ run' = run
  /\ pc' = "load"
  /\ UNCHANGED <<rec>>
  /\ UNCHANGED Pipe

\* sendAudioFileToWhisper returns code to stopRecordAudioFromMicrophone,
\* which ignores it and returns 0 (lines 181-183)
SendReturns(r, code) == [r EXCEPT !.sendRet = code, !.stopRet = 0]

\* sendAudioFileToWhisper lines 31-86: load the WAV file, downmix, resample
LoadAudio(ioOk) ==
  /\ pc = "load"
  /\ LET i == FileAt(fs, run.audioPath)
     IN  IF ~ioOk \/ i = 0
           THEN /\ run' = SendReturns(run, 1)
                /\ pc' = "ret"
         ELSE LET buf == WavBuffer(fs.files[i].data)
              IN  IF buf.ch = 0
                    THEN /\ run' = run
                         /\ pc' = "ub"
                  ELSE IF buf.rate # WHISPER_SAMPLE_RATE /\ downmixToMono(buf) = <<>>
                    THEN /\ run' = SendReturns(run, 2)
                         /\ pc' = "ret"
                  ELSE /\ run' = [run EXCEPT !.pcm =
                                    resample(downmixToMono(buf), buf.rate,
                                             WHISPER_SAMPLE_RATE)]
                       /\ pc' = "model"
  /\ UNCHANGED <<fs, rec>>
  /\ UNCHANGED Pipe

\* lines 88-94: whisper_init_from_file_with_params
InitModel(modelOk) ==
  /\ pc = "model"
  /\ IF modelOk
       THEN /\ run' = run
            /\ pc' = "engine"
       ELSE /\ run' = SendReturns(run, 3)
            /\ pc' = "ret"
  /\ UNCHANGED <<fs, rec>>
  /\ UNCHANGED Pipe

\* segment lists the engine may return
SegChoices == { <<>>, << <<120>> >>, << <<120>>, <<120, 120>> >> }

\* lines 101-107: whisper_full on the resampled samples
RunEngine(engineOk, segs) ==
  /\ pc = "engine"
  /\ IF engineOk
       THEN /\ run' = [run EXCEPT !.engine = TRUE, !.segs = segs]
            /\ pc' = "write"
       ELSE /\ segs = <<>>
            /\ run' = SendReturns([run EXCEPT !.engine = TRUE], 5)
            /\ pc' = "ret"
  /\ UNCHANGED <<fs, rec>>
  /\ UNCHANGED Pipe

RECURSIVE SegmentLines(_)
\* lines 115-118: every segment text followed by '\n'
SegmentLines(segs) ==
  IF segs = <<>> THEN <<>>
  ELSE Head(segs) \o <<ChNL>> \o SegmentLines(Tail(segs))

\* lines 109-122: write the segments to the text file
WriteSegments ==
  /\ pc = "write"
  /\ fs' = IF CanOpenForWrite(fs, run.textPath)
             THEN WriteFile(fs, run.textPath, SegmentLines(run.segs))
             ELSE fs
  /\ run' = SendReturns(run, 0)
  /\ pc' = "ret"
  /\ UNCHANGED <<rec>>
  /\ UNCHANGED Pipe

\* time passes while the engine works
EngineTick ==
  /\ pc = "engine"
  /\ now < MaxClock
  /\ now' = now + 1
  /\ UNCHANGED <<voicePath, fs, notes, selected, isRecording, requestSaveAt,
                 winOpen, rec, pc, run, log, dirtySince, events>>

PipelineStep ==
  \/ \E ioOk \in BOOLEAN : SaveWav(ioOk)
  \/ MakeTxt
  \/ \E ioOk \in BOOLEAN : LoadAudio(ioOk)
  \/ \E modelOk \in BOOLEAN : InitModel(modelOk)
  \/ \E engineOk \in BOOLEAN : \E segs \in SegChoices : RunEngine(engineOk, segs)
  \/ WriteSegments
  \/ EngineTick

\* ------------------------------ downmix and resample as functions
\* sample rates of the buffers: the engine's rate, the capture rate, a
\* rate below the engine's
DspRates == {WHISPER_SAMPLE_RATE, CaptureRate, 8000}

\* 16-bit sample values: the extremes, zero and two mid values
DspSampleValues == {-32768, -16384, 0, 16384, 32767}

\* the buffers sendAudioFileToWhisper may have loaded
DspBuffers ==
  { [rate |-> r, ch |-> c, samples |-> q] :
      r \in DspRates, c \in 0..MaxChannels,
      q \in UNION { [1..n -> DspSampleValues] : n \in 0..MaxSamples } }

InitDsp ==
  /\ now = 0
  /\ voicePath = VoiceNotesDefault
  /\ fs = [dirs |-> {Cwd}, files |-> <<>>]
  /\ notes = <<>>
  /\ selected = 0
  /\ isRecording = FALSE
  /\ requestSaveAt = 0
  /\ winOpen = FALSE
  /\ \E b \in DspBuffers : rec = [IdleRecorder EXCEPT !.buffer = b]
  /\ pc = "idle"
  /\ run = NoRun
  /\ log = <<>>
  /\ dirtySince = -1
  /\ events = 0

\* part_001 lines 39-58 on the loaded buffer.  With channelCount = 0 line
\* 45 divides by zero, which is undefined: the division traps (pc "ub"),
\* or yields no frames and the code goes on with an empty vector.
DspDownmix ==
  /\ pc = "idle"
  /\ IF rec.buffer.ch = 0
       THEN \/ pc' = "ub" /\ run' = run
            \/ pc' = "mono" /\ run' = [run EXCEPT !.pcm = <<>>]
       ELSE /\ pc' = "mono"
            /\ run' = [run EXCEPT !.pcm = downmixToMono(rec.buffer)]
  /\ UNCHANGED <<now, voicePath, fs, notes, selected, isRecording, requestSaveAt,
                 winOpen, rec, log, dirtySince, events>>

\* part_001 lines 60-86 on the mono samples
DspResample ==
  /\ pc = "mono"
  /\ IF rec.buffer.rate # WHISPER_SAMPLE_RATE /\ run.pcm = <<>>
       THEN /\ run' = SendReturns(run, 2)
            /\ pc' = "ret"
       ELSE /\ run' = [run EXCEPT !.pcm =
                         resample(run.pcm, rec.buffer.rate, WHISPER_SAMPLE_RATE)]
            /\ pc' = "model"
  /\ UNCHANGED <<now, voicePath, fs, notes, selected, isRecording, requestSaveAt,
                 winOpen, rec, log, dirtySince, events>>

NextDsp ==
  \/ DspDownmix
  \/ DspResample

SpecDsp == InitDsp /\ [][NextDsp]_vars

\* --------------------------------------- the capture API used by a client
LogEntry(op, ok, at, out) == [op |-> op, ok |-> ok, at |-> at, out |-> out]

InitApi ==
  /\ Quiet
  /\ now = 0
  /\ log = <<>>
  /\ voicePath \in {VoiceNotesDefault, <<"d">>, EmptyStr}
  /\ fs \in { [dirs |-> {Cwd}, files |-> <<>>],
              [dirs |-> {Cwd, HomeOf(voicePath)},
               files |-> << Entry(DirOf(stopDir(voicePath)), NotePrefix \o getTimestamp(0),
                                  ".txt", "file", "rw", <<120>>) >>] }

\* a client calls startRecordAudioFromMicrophone
ApiStart(available, deviceOk) ==
  /\ pc = "idle"
  /\ Len(log) < MaxOps
  /\ LET st == startRecordAudioFromMicrophone(rec, available, deviceOk)
     IN  /\ rec' = st.rec
         /\ run' = [run EXCEPT !.startRet = st.ret]
         /\ log' = Append(log, LogEntry("start", st.ret = 0, 0, <<rec, st.rec>>))
  /\ UNCHANGED <<now, voicePath, fs, notes, selected, isRecording, requestSaveAt,
                 winOpen, pc, dirtySince, events>>

\* a client calls stopRecordAudioFromMicrophone
ApiStop(mkdirThrows) ==
  /\ pc = "idle"
  /\ Len(log) < MaxOps
  /\ StopBegin(mkdirThrows)
  /\ log' = Append(log, LogEntry("stop", TRUE, 0, <<rec, fs>>))
  /\ UNCHANGED <<now, voicePath, notes, selected, isRecording, requestSaveAt,
                 winOpen, dirtySince, events>>

\* stopRecordAudioFromMicrophone returns to the client
ApiReturn ==
  /\ pc = "ret"
  /\ pc' = "idle"
  /\ log' = Append(log, LogEntry("stopped", run.stopRet = 0, 0, <<>>))
  /\ run' = [NoRun EXCEPT !.startRet = run.startRet]
  /\ UNCHANGED <<now, voicePath, fs, notes, selected, isRecording, requestSaveAt,
                 winOpen, rec, dirtySince, events>>

NextApi ==
  \/ \E available, deviceOk \in BOOLEAN : ApiStart(available, deviceOk)
  \/ \E mkdirThrows \in BOOLEAN : ApiStop(mkdirThrows)
  \/ Capture
  \/ PipelineStep
  \/ ApiReturn

SpecApi == InitApi /\ [][NextApi]_vars

\* ------------------------------------------------- the hub window
\* main.cpp line 828: std::chrono::seconds(3)
AutosaveInterval == 3

\* main.cpp lines 853, 917: std::chrono::seconds(10)
NewNoteBackdate == 10

InRange == selected >= 0 /\ selected < Len(notes)

\* notes[selected]
Sel == notes[selected + 1]

\* the window is open and the event loop is polling
UiReady == winOpen /\ pc = "idle"

\* a further key press or click is handled
UserEvent == UiReady /\ events < MaxEvents /\ events' = events + 1

\* directories the program may find at startup
AppDirs(d) ==
  { [dirs |-> {Cwd}, files |-> <<>>],
    [dirs |-> {Cwd, d},
     files |-> << Entry(d, StemA, ".txt", "file", "rw", <<120, 120>>),
                  Entry(d, StemA, ".wav", "file", "rw", OneSampleWav),
                  Entry(d, StemM, ".txt", "file", "ro", <<120>>) >>],
    [dirs |-> {Cwd, d},
     files |-> << Entry(d, StemB, ".wav", "file", "rw", OneSampleWav),
                  Entry(d, StemM, ".ogg", "file", "rw", <<>>) >>],
    [dirs |-> {Cwd, d},
     files |-> << Entry(d, StemM, ".txt", "bad", "none", <<>>) >>] }

\* values of Settings::voice_notes_path read from settings.txt at startup
StartPaths == {VoiceNotesDefault, EmptyStr}

\* values the settings dialog accepts (validInputs: not empty)
DialogPaths == {VoiceNotesDefault, <<"d">>}

\* main.cpp lines 759-768: the note list main() starts with
StartNotes(fs0, path) ==
  LET r == scanVoiceNotes(fs0, path)
      c == createNewTextNote(r.fs, path, 0)
      n == [c.note EXCEPT !.text = TakeNoteText]
  IN  IF r.out = <<>>
        THEN [notes |-> <<n>>, fs |-> saveNoteText(c.fs, n)[2]]
        ELSE [notes |-> r.out, fs |-> r.fs]

Init ==
  /\ now = 0
  /\ voicePath \in StartPaths
  /\ \E fs0 \in AppDirs(HomeOf(voicePath)) :
        /\ notes = StartNotes(fs0, voicePath).notes
        /\ fs = StartNotes(fs0, voicePath).fs
  /\ selected = 0
  /\ isRecording = FALSE
  /\ requestSaveAt = 0
  /\ winOpen = TRUE
  /\ rec = IdleRecorder
  /\ pc = "idle"
  /\ run = NoRun
  /\ log = <<>>
  /\ dirtySince = -1
  /\ events = 0

\* main.cpp lines 826-834, maybeAutosave at clock reading t:
\* [fs, requestSaveAt, saved (saveNoteText was called)]
maybeAutosave(f, ns, sel, rsa, t) ==
  IF t - rsa > AutosaveInterval
    THEN [fs |-> IF sel >= 0 /\ sel < Len(ns) THEN saveNoteText(f, ns[sel + 1])[2] ELSE f,
          requestSaveAt |-> t,
          saved |-> sel >= 0 /\ sel < Len(ns)]
    ELSE [fs |-> f, requestSaveAt |-> rsa, saved |-> FALSE]

\* The rest of a loop iteration once its event handler has left the file
\* system f, the notes ns, the selection sel, the save request time rsa and
\* the oldest unsaved edit time ds: maybeAutosave (line 1041) at clock t.
EndFrame(f, ns, sel, rsa, ds, t) ==
  LET a == maybeAutosave(f, ns, sel, rsa, t)
  IN  /\ fs' = a.fs
      /\ requestSaveAt' = a.requestSaveAt
      /\ dirtySince' = IF a.saved THEN -1 ELSE ds

\* a second passes with no event; the loop keeps running maybeAutosave
Tick ==
  /\ UiReady
  /\ now < MaxClock
  /\ now' = now + 1
  /\ EndFrame(fs, notes, selected, requestSaveAt, dirtySince, now + 1)
  /\ UNCHANGED <<voicePath, notes, selected, isRecording, winOpen, rec, pc,
                 run, log, events>>

\* Closed event, Escape, or a click on the close button (lines 840, 845,
\* 911): win.close(); the iteration still runs maybeAutosave, then the
\* loop ends
CloseWindow ==
  /\ UserEvent
  /\ winOpen' = FALSE
  /\ EndFrame(fs, notes, selected, requestSaveAt, dirtySince, now)
  /\ UNCHANGED <<now, voicePath, notes, selected, isRecording, rec, pc, run, log>>

\* lines 849-853 and 913-917: create a note, append and select it
NewNote ==
  /\ UserEvent
  /\ Len(notes) < MaxNotes
  /\ LET c == createNewTextNote(fs, voicePath, now)
     IN  /\ notes' = Append(notes, c.note)
         /\ selected' = Len(notes)
         /\ EndFrame(c.fs, Append(notes, c.note), Len(notes),
                     now - NewNoteBackdate, -1, now)
  /\ UNCHANGED <<now, voicePath, isRecording, winOpen, rec, pc, run, log>>

\* Ctrl+N
CtrlN == NewNote

\* click on the plus button
PlusClick == NewNote

\* Ctrl+S (lines 856-861)
CtrlS ==
  /\ UserEvent
  /\ EndFrame(IF InRange THEN saveNoteText(fs, Sel)[2] ELSE fs,
              notes, selected, now, IF InRange THEN -1 ELSE dirtySince, now)
  /\ UNCHANGED <<now, voicePath, notes, selected, isRecording, winOpen, rec,
                 pc, run, log>>

\* what the three editing handlers share: the new text of notes[selected]
EditTo(text) ==
  LET ns == [notes EXCEPT ![selected + 1].text = text]
  IN  /\ notes' = ns
      /\ EndFrame(fs, ns, selected, now,
                  IF dirtySince = -1 THEN now ELSE dirtySince, now)
      /\ UNCHANGED <<now, voicePath, selected, isRecording, winOpen, rec, pc,
                     run, log>>

\* Backspace (lines 864-870); an empty text is left alone
Backspace ==
  /\ UserEvent /\ InRange
  /\ Sel.text # <<>>
  /\ EditTo(Front(Sel.text))

\* Enter (lines 872-876)
EnterKey ==
  /\ UserEvent /\ InRange
  /\ Len(Sel.text) < MaxTextLen
  /\ EditTo(Append(Sel.text, ChNL))

\* TextEntered with a printable character (lines 880-888)
TextEntered(c) ==
  /\ UserEvent /\ InRange
  /\ Len(Sel.text) < MaxTextLen
  /\ EditTo(Append(Sel.text, c))

\* an editing handler indexes notes[selected] with selected out of range
\* (lines 865, 873, 884): undefined behaviour
EditOutOfRange ==
  /\ UserEvent /\ ~InRange
  /\ pc' = "ub"
  /\ UNCHANGED <<now, voicePath, fs, notes, selected, isRecording, requestSaveAt,
                 winOpen, rec, run, log, dirtySince>>

\* click on a list row (lines 987-1003): select it and reload its text
ListClick(idx) ==
  /\ UserEvent
  /\ idx >= 0 /\ idx < Len(notes)
  /\ LET ns == IF notes[idx + 1].txtPath # EmptyPath
                 THEN [notes EXCEPT ![idx + 1].text = slurp(fs, notes[idx + 1].txtPath)]
                 ELSE notes
     IN  /\ selected' = idx
         /\ notes' = ns
         /\ EndFrame(fs, ns, idx, requestSaveAt, -1, now)
  /\ UNCHANGED <<now, voicePath, isRecording, winOpen, rec, pc, run, log>>

\* click on the gear, dialog confirmed (lines 918-941, 452-474, 503-519):
\* the new path is stored (the OK button creates the directory first, the
\* Enter key does not), then the list is rescanned
GearConfirmed(path, byButton) ==
  /\ UserEvent
  /\ voicePath' = path
  /\ LET fs1 == IF byButton THEN MkDirs(fs, path) ELSE fs
         v   == scanVoiceNotes(fs1, path)
         c   == createNewTextNote(v.fs, path, now)
         ns  == IF v.out # <<>> THEN v.out ELSE <<c.note>>
         sel == IF v.out = <<>> THEN 0
                ELSE IF selected >= Len(v.out) THEN Len(v.out) - 1
                ELSE IF selected < 0 THEN 0 ELSE selected
     IN  /\ notes' = ns
         /\ selected' = sel
         /\ EndFrame(IF v.out # <<>> THEN v.fs ELSE c.fs, ns, sel,
                     requestSaveAt, -1, now)
  /\ UNCHANGED <<now, isRecording, winOpen, rec, pc, run, log>>

\* click on the microphone while not recording (lines 965-968)
MicClickStart(available, deviceOk) ==
  /\ UserEvent
  /\ ~isRecording
  /\ LET st == startRecordAudioFromMicrophone(rec, available, deviceOk)
     IN  /\ rec' = st.rec
         /\ run' = [run EXCEPT !.startRet = st.ret]
  /\ isRecording' = TRUE
  /\ EndFrame(fs, notes, selected, requestSaveAt, dirtySince, now)
  /\ UNCHANGED <<now, voicePath, notes, selected, winOpen, pc, log>>

\* click on the microphone while recording (line 970): the handler enters
\* stopRecordAudioFromMicrophone
MicClickStop(mkdirThrows) ==
  /\ UserEvent
  /\ isRecording
  /\ StopBegin(mkdirThrows)
  /\ UNCHANGED <<now, voicePath, notes, selected, isRecording, requestSaveAt,
                 winOpen, log, dirtySince>>

\* the handler after stopRecordAudioFromMicrophone has returned (lines
\* 971-976): rescan and select the newest note; then the iteration ends
MicStopFinish ==
  /\ pc = "ret"
  /\ winOpen
  /\ isRecording' = FALSE
  /\ LET v   == scanVoiceNotes(fs, voicePath)
         sel == IF v.out # <<>> THEN 0 ELSE selected
     IN  /\ notes' = v.out
         /\ selected' = sel
         /\ EndFrame(v.fs, v.out, sel, requestSaveAt, -1, now)
  /\ pc' = "idle"
  /\ run' = [NoRun EXCEPT !.startRet = run.startRet]
  /\ UNCHANGED <<now, voicePath, winOpen, rec, log, events>>

Next ==
  \/ Tick
  \/ CloseWindow
  \/ CtrlN
  \/ PlusClick
  \/ CtrlS
  \/ Backspace
  \/ EnterKey
  \/ \E c \in TypedChars : TextEntered(c)
  \/ EditOutOfRange
  \/ \E idx \in 0..(MaxNotes - 1) : ListClick(idx)
  \/ \E path \in DialogPaths : \E byButton \in BOOLEAN : GearConfirmed(path, byButton)
  \/ \E available, deviceOk \in BOOLEAN : MicClickStart(available, deviceOk)
  \/ \E mkdirThrows \in BOOLEAN : MicClickStop(mkdirThrows)
  \/ Capture
  \/ PipelineStep
  \/ MicStopFinish

Spec == Init /\ [][Next]_vars

\* ====================================================== properties
\* the regular files of the scanned directory
HomeFiles == {i \in 1..Len(fs.files) :
                fs.files[i].dir = Home /\ fs.files[i].kind = "file"}

HasFile(stem, ext) ==
  \E i \in HomeFiles : fs.files[i].stem = stem /\ fs.files[i].ext = ext

ExtsOf(stem) == {fs.files[i].ext : i \in {j \in HomeFiles : fs.files[j].stem = stem}}

HomeStems == {fs.files[i].stem : i \in HomeFiles}

NotesFor(out, stem) == {i \in 1..Len(out) : out[i].base = stem}

LastIsScan == log # <<>> /\ log[Len(log)].op = "scan"

\* C3: reconcile yields one Note per base name: at most one Note for any
\* base, exactly one for a base that has a .txt or a .wav file; with both
\* X.txt and X.wav that Note has both paths set, with X.wav only it has
\* the audio path set, no text path and empty text.
C3_OneNotePerBase ==
  LastIsScan =>
    /\ \A i \in 1..Len(notes) : notes[i].base \in HomeStems
    /\ \A x \in HomeStems :
         /\ Cardinality(NotesFor(notes, x)) <= 1
         /\ (HasFile(x, ".txt") \/ HasFile(x, ".wav")) =>
               Cardinality(NotesFor(notes, x)) = 1
         /\ (HasFile(x, ".txt") /\ HasFile(x, ".wav")) =>
               \A i \in NotesFor(notes, x) :
                  /\ notes[i].txtPath # EmptyPath /\ notes[i].txtPath.stem = x
                  /\ notes[i].wavPath # EmptyPath /\ notes[i].wavPath.stem = x
         /\ ExtsOf(x) = {".wav"} =>
               \A i \in NotesFor(notes, x) :
                  /\ notes[i].wavPath = MkPath(normalizedVoiceDir(voicePath), x, ".wav")
                  /\ notes[i].txtPath = EmptyPath
                  /\ notes[i].text = EmptyStr

\* a scan of a directory holding a .txt/.wav pair and a lone .wav
C3_Witness ==
  /\ LastIsScan
  /\ Len(notes) = 2
  /\ HasFile(StemA, ".txt") /\ HasFile(StemA, ".wav")
  /\ ExtsOf(StemB) = {".wav"}

\* C6: the result of reconcile is in descending order of id (string
\* order), so of two timestamp ids the one of the later time comes first.
C6_DescendingById ==
  LastIsScan =>
    /\ \A i \in 1..(Len(notes) - 1) : StrGreater(notes[i].base, notes[i + 1].base)
    /\ \A i, j \in 1..Len(notes) : \A t, u \in 0..(MaxClock + 2) :
         (/\ notes[i].base = makeTimestampBase(t)
          /\ notes[j].base = makeTimestampBase(u)
          /\ t > u) => i < j

\* a scan that returned the notes of two timestamps and a third one
C6_Witness ==
  /\ LastIsScan
  /\ Len(notes) = 3
  /\ notes[1].base = StemB
  /\ notes[2].base = StemA

C8_SaveThenScan ==
  \A k \in 1..(Len(log) - 1) :
     (log[k].op = "save" /\ log[k].ok /\ log[k + 1].op = "scan") =>
        \E j \in 1..Len(log[k + 1].out) :
           /\ log[k + 1].out[j].base = log[k].out[1].base
           /\ log[k + 1].out[j].text = log[k].out[1].text

\* a shorter text saved over a longer file, then a scan
C8_Witness ==
  /\ Len(log) >= 3
  /\ log[1].op = "scan" /\ Len(log[1].out) >= 1
  /\ log[2].op = "save" /\ log[2].ok
  /\ Len(log[2].out[1].text) < Len(log[1].out[log[2].at].text)
  /\ log[3].op = "scan"

\* ---- the capture and transcription pipeline
\* the result codes with which sendAudioFileToWhisper reports that the
\* engine failed: empty input (2), model load (3), whisper_full (5)
EngineFailures == {2, 3, 5}

\* what a file system holds at path p: <<the entry>>, or <<>> for no file
FileIn(f, p) == IF FileAt(f, p) = 0 THEN <<>> ELSE <<f.files[FileAt(f, p)]>>

\* C1: when the engine fails in the run that follows a stop, the .wav file
\* exists and is not empty, the .txt file exists, and the caller of the
\* pipeline (of stopRecordAudioFromMicrophone) is given a failure result.
C1_EngineFailureReported ==
  (pc = "ret" /\ run.sendRet \in EngineFailures) =>
     /\ FileIn(fs, run.audioPath) # <<>>
     /\ FileIn(fs, run.audioPath)[1].data # <<>>
     /\ FileIn(fs, run.textPath) # <<>>
     /\ run.stopRet # 0

\* C2: in a pipeline run the .wav file is written before the engine is
\* invoked (and before the text file is made); a run whose .wav write
\* fails returns a failure result without having created or truncated the
\* .txt file and without having invoked the engine.
C2_WavBeforeEngine ==
  /\ (pc \in {"load", "model", "engine", "write"} \/ run.engine \/ run.txtMade) =>
        /\ run.wavSaved
        /\ FileIn(fs, run.audioPath) # <<>>
  /\ (pc = "ret" /\ ~run.wavSaved) =>
        /\ run.stopRet = 1
        /\ ~run.txtMade
        /\ ~run.engine
        /\ FileIn(fs, run.textPath) = FileIn(log[Len(log)].out[2], run.textPath)

\* a run aborted by a failed .wav write while a text file of the run's
\* name, with content, is on disk
C2_Witness ==
  /\ pc = "ret"
  /\ ~run.wavSaved
  /\ FileIn(fs, run.textPath) # <<>>
  /\ FileIn(fs, run.textPath)[1].data # <<>>

C4_UniqueIds ==
  \A i, j \in 1..Len(notes) : i # j => notes[i].base # notes[j].base

\* C5: every Note of the list has its text path or its audio path set,
\* whatever else the directory holds.
C5_SomePathSet ==
  \A i \in 1..Len(notes) :
     notes[i].txtPath # EmptyPath \/ notes[i].wavPath # EmptyPath

\* the list after a recording was stopped and the directory, which holds a
\* file of a foreign extension, was scanned again
C5_Witness ==
  /\ pc = "idle"
  /\ run.startRet # -1
  /\ ~isRecording
  /\ notes # <<>>
  /\ \E i \in HomeFiles : ~IsTxtExt(fs.files[i].ext) /\ ~IsWavExt(fs.files[i].ext)

\* C9: an edit of the selected note is saved within the autosave interval
\* of its being typed, also when further edits follow it.  (Ctrl+S saves
\* in its own handler: CtrlS leaves no edit unsaved.)
C9_SavedWithinInterval ==
  dirtySince # -1 => now - dirtySince <= AutosaveInterval

\* C11: a stop made while no capture is running is a no-op that reports
\* failure: it creates or modifies no file, does not invoke the engine and
\* returns a failure result.
C11_StopWhileIdleIsNoOp ==
  (/\ log # <<>>
   /\ log[Len(log)].op = "stop"
   /\ ~log[Len(log)].out[1].capturing) =>
     /\ fs.files = log[Len(log)].out[2].files
     /\ ~run.wavSaved /\ ~run.txtMade /\ ~run.engine
     /\ pc = "ret" => run.stopRet # 0

\* C12: the window's recording state is set only by a start that reported
\* success.
C12_RecordingOnlyAfterSuccessfulStart ==
  isRecording => run.startRet = 0

\* C13: in a run that reaches the engine the .txt file of the recording
\* was created or truncated before the engine is invoked, so from then on
\* (also when transcription fails) a reconcile of the notes directory
\* returns a Note of the recording's id with both paths set.
C13_TxtBeforeEngine ==
  (pc \in {"engine", "write"} \/ run.engine) =>
     /\ run.txtMade
     /\ \E i \in 1..Len(scanVoiceNotes(fs, voicePath).out) :
          LET n == scanVoiceNotes(fs, voicePath).out[i]
          IN  /\ n.base = run.baseName
              /\ n.txtPath # EmptyPath
              /\ n.wavPath # EmptyPath

\* ---- the note store
LastIsCreate == log # <<>> /\ log[Len(log)].op = "create"

\* C14: create returns a Note with the text path set, the audio path
\* unset and the placeholder content as text.
C14_CreateReturnsTextOnlyNote ==
  \A k \in 1..Len(log) :
     log[k].op = "create" =>
        /\ log[k].out[1].txtPath # EmptyPath
        /\ log[k].out[1].wavPath = EmptyPath
        /\ log[k].out[1].text = NewNoteText

\* C15: when create has returned a Note, the file at its text path exists
\* and holds the returned text, and a reconcile made right then returns a
\* Note of that id with that text.
C15_CreateIsDurable ==
  LastIsCreate =>
     LET n == log[Len(log)].out[1]
         v == scanVoiceNotes(fs, voicePath).out
     IN  /\ FileIn(fs, n.txtPath) # <<>>
         /\ FileIn(fs, n.txtPath)[1].data = n.text
         /\ \E i \in 1..Len(v) : v[i].base = n.base /\ v[i].text = n.text

\* the step is a call of save on a Note whose text path is unset
SaveUnsetStep ==
  /\ Len(log') = Len(log) + 1
  /\ log'[Len(log')].op = "save"
  /\ log'[Len(log')].out[1].txtPath = EmptyPath

\* C16: save on a Note whose text path is unset is a no-op that reports
\* failure - it changes no file - and what it reports differs from what a
\* failed write to a set text path reports.
C16_UnsetPathSaveDistinct ==
  /\ [][SaveUnsetStep => (fs' = fs /\ ~log'[Len(log')].ok)]_vars
  /\ [](\A k, j \in 1..Len(log) :
          (/\ log[k].op = "save" /\ log[k].out[1].txtPath = EmptyPath
           /\ log[j].op = "save" /\ log[j].out[1].txtPath # EmptyPath
           /\ ~log[j].ok) => log[k].ok # log[j].ok)

\* the spellings of the two extensions, in every casing
TxtSpellings == {".txt", ".txT", ".tXt", ".tXT", ".Txt", ".TxT", ".TXt", ".TXT"}

WavSpellings == {".wav", ".waV", ".wAv", ".wAV", ".Wav", ".WaV", ".WAv", ".WAV"}

\* C17: reconcile matches .txt and .wav in any casing: every such file
\* sets the text path / audio path of the Note of its base name, and the
\* files of one base name collapse into one Note.
C17_CaseInsensitiveExt ==
  LastIsScan =>
    /\ \A i \in HomeFiles :
         /\ fs.files[i].ext \in TxtSpellings =>
               \E j \in NotesFor(notes, fs.files[i].stem) : notes[j].txtPath # EmptyPath
         /\ fs.files[i].ext \in WavSpellings =>
               \E j \in NotesFor(notes, fs.files[i].stem) : notes[j].wavPath # EmptyPath
    /\ \A x \in HomeStems : Cardinality(NotesFor(notes, x)) <= 1

\* the note files of the scanned directory that can be read
ReadableNoteFiles ==
  {i \in HomeFiles : /\ fs.files[i].acc # "none"
                     /\ IsTxtExt(fs.files[i].ext) \/ IsWavExt(fs.files[i].ext)}

\* C18: a fault on one file does not abort the reconcile: every readable
\* note file of the directory is in the result, whatever else the
\* directory holds.
C18_OneBadFileDoesNotAbort ==
  LastIsScan =>
    \A i \in ReadableNoteFiles :
       \E j \in NotesFor(notes, fs.files[i].stem) :
          /\ IsTxtExt(fs.files[i].ext) => notes[j].txtPath # EmptyPath
          /\ IsWavExt(fs.files[i].ext) => notes[j].wavPath # EmptyPath

\* C19: a reconcile that finds no notes directory creates it and returns
\* the empty sequence; the directory exists from then on.
C19_MissingDirCreated ==
  \A k \in 1..Len(log) :
     (log[k].op = "scan" /\ ~log[k].had) =>
        /\ log[k].out = <<>>
        /\ DirExists(fs, normalizedVoiceDir(voicePath))

\* a reconcile was made when the notes directory did not exist
C19_Witness ==
  /\ log # <<>>
  /\ log[1].op = "scan"
  /\ ~log[1].had
  /\ Home \in fs.dirs

\* ---- downmix and resample
\* C20: a downmix of a buffer with channel count 0 fails at once with an
\* error result; no division by zero is performed.
C20_ZeroChannelsFailFast ==
  (rec.buffer.ch = 0 /\ pc # "idle") =>
     /\ pc = "ret"
     /\ run.sendRet > 0
     /\ run.pcm = <<>>

\* the mono samples the resampling step is given (channel count > 0)
MonoInput == downmixToMono(rec.buffer)

\* C21: a resample of a zero-length input fails with the empty-input
\* result whatever the two rates are, also when they are equal; the run
\* never goes on towards the engine with an empty sample sequence.
C21_EmptyInputRejected ==
  (rec.buffer.ch > 0 /\ pc \in {"model", "ret"}) =>
     /\ MonoInput = <<>> => (pc = "ret" /\ run.sendRet = 2)
     /\ pc = "model" => run.pcm # <<>>

\* a hundred samples of silence
HundredSamples == [k \in 1..100 |-> Frac(0, 32768)]

\* C22: a non-empty input of n samples resampled between different rates
\* gives round(n * toRate / fromRate) samples, a half rounded up (the
\* length k with k <= n * toRate / fromRate + 1/2 < k + 1); 100 samples at
\* 8000 Hz give 200 at 16000 Hz; equal rates return the input unchanged.
C22_ResampleLength ==
  /\ (pc = "model" /\ rec.buffer.ch > 0 /\ MonoInput # <<>>) =>
        LET n    == Len(MonoInput)
            k    == Len(run.pcm)
            from == rec.buffer.rate
            to   == WHISPER_SAMPLE_RATE
        IN  IF from # to
              THEN /\ 2 * k * from <= 2 * n * to + from
                   /\ 2 * n * to + from < 2 * (k + 1) * from
              ELSE run.pcm = MonoInput
  /\ Len(resample(HundredSamples, 8000, WHISPER_SAMPLE_RATE)) = 200

\* two samples at the capture rate, whose 0.73 output samples round up
C22_Witness ==
  /\ pc = "model"
  /\ rec.buffer.ch = 1
  /\ rec.buffer.rate = CaptureRate
  /\ Len(rec.buffer.samples) = 2
  /\ Len(run.pcm) = 1

\* C23: every frame of channelCount >= 1 samples is mapped to the sum of
\* its samples over channelCount * 32768; the sum stays within the frame's
\* range, far inside a 32-bit accumulator, and the result is in [-1, 1].
C23_DownmixValue ==
  (pc = "mono" /\ rec.buffer.ch > 0) =>
     /\ Len(run.pcm) = Len(rec.buffer.samples) \div rec.buffer.ch
     /\ \A k \in 1..Len(run.pcm) :
          LET c   == rec.buffer.ch
              sum == SumSeq(SubSeq(rec.buffer.samples, (k - 1) * c + 1, k * c))
          IN  /\ run.pcm[k].n = sum
              /\ run.pcm[k].d = c * 32768
              /\ sum >= -(c * 32768) /\ sum <= c * 32768
              /\ c * 32768 <= 2147483647
              /\ run.pcm[k].n >= -run.pcm[k].d /\ run.pcm[k].n <= run.pcm[k].d

\* the two-channel frame [16384, -16384] downmixed to 0
C23_Witness ==
  /\ pc = "mono"
  /\ rec.buffer.ch = 2
  /\ rec.buffer.samples = <<16384, -16384>>
  /\ run.pcm = <<Frac(0, 65536)>>

\* the source rates the index arithmetic is also tried on
IndexRates == {8000, 11025, 22050, 32000, CaptureRate, 48000}

\* the indices read for output sample i of an input of n samples are
\* inside the input
ReadsInside(n, inRate, outRate, i) ==
  LET idx == SrcIndex(inRate, outRate, i)
  IN  /\ idx >= 0 /\ idx < n
      /\ SecondIndex(n, idx) >= 0 /\ SecondIndex(n, idx) < n

\* C27: for a non-empty input of n samples and every output index i below
\* the output length, the interpolation reads in[idx] with 0 <= idx < n and
\* reads in[idx + 1] only if idx + 1 < n: nothing outside the input is
\* read.
C27_ResampleReadsInside ==
  /\ (pc = "model" /\ rec.buffer.ch > 0 /\ rec.buffer.rate # WHISPER_SAMPLE_RATE) =>
        \A i \in 0..(Len(run.pcm) - 1) :
           ReadsInside(Len(MonoInput), rec.buffer.rate, WHISPER_SAMPLE_RATE, i)
  /\ \A n \in 1..12 : \A r \in IndexRates :
        \A i \in 0..(OutFrames(n, r, WHISPER_SAMPLE_RATE) - 1) :
           ReadsInside(n, r, WHISPER_SAMPLE_RATE, i)

\* an upsampled input, whose last output samples hold the last input
\* sample
C27_Witness ==
  /\ pc = "model"
  /\ rec.buffer.ch = 1
  /\ rec.buffer.rate = 8000
  /\ Len(rec.buffer.samples) = 2
  /\ Len(run.pcm) = 4

RECURSIVE JoinSegments(_)
\* the segments with one newline between consecutive segments
JoinSegments(segs) ==
  IF segs = <<>> THEN <<>>
  ELSE IF Len(segs) = 1 THEN Head(segs)
  ELSE Head(segs) \o <<ChNL>> \o JoinSegments(Tail(segs))

\* C24: when the engine has succeeded and the transcription run returns,
\* the text file holds exactly the engine's segments in order with a
\* newline between consecutive segments and nothing else (no segments: an
\* empty file).
C24_SegmentsJoinedByNewlines ==
  (pc = "ret" /\ run.sendRet = 0) =>
     /\ FileAt(fs, run.textPath) # 0
     /\ slurp(fs, run.textPath) = JoinSegments(run.segs)

\* C30: whatever the configured notes directory is (empty, with or without
\* a trailing separator), after a record stop that returned success the
\* rescan of the notes directory holds a note for the id just recorded.
C30_RescanHasNewRecording ==
  (pc = "ret" /\ run.stopRet = 0) =>
     \E i \in 1..Len(scanVoiceNotes(fs, voicePath).out) :
        scanVoiceNotes(fs, voicePath).out[i].base = run.baseName

\* the process has exited and the last thing it did was a save that had
\* opened its file
ExitAfterSave ==
  /\ pc \in {"crashed", "restarted"}
  /\ Len(log) >= 2
  /\ log[Len(log) - 1].op = "save"
  /\ log[Len(log) - 1].ok

\* C25: if the process exits at any point during a save of a note, the text
\* file holds, and the next scan loads, either the complete previous
\* content or the complete new content, never an empty or partly written
\* file.
C25_ExitSafeSave ==
  ExitAfterSave =>
     LET e == log[Len(log) - 1]
         n == e.out[1]
     IN  /\ slurp(fs, n.txtPath) \in {e.old, n.text}
         /\ pc = "restarted" =>
               \A i \in 1..Len(notes) :
                  notes[i].txtPath = n.txtPath => notes[i].text \in {e.old, n.text}

\* C26: a loaded note's in-memory text is authoritative: a click on a list
\* row never replaces the text a note has in memory (so unsaved edits are
\* never overwritten by the older content on disk).
C26_ListClickKeepsText ==
  [][ \A idx \in 0..(MaxNotes - 1) :
        ListClick(idx) => notes'[idx + 1].text = notes[idx + 1].text ]_vars

\* C28: whenever the event loop is polling, the note collection is not
\* empty and 0 <= selected < number of notes, so that notes[selected] in
\* the Backspace, Enter and text-entry handlers is in range.
C28_SelectionInRange ==
  UiReady => (notes # <<>> /\ InRange)

\* a handler that replaces the note collection by a rescan, or closes the
\* window
ReplacesOrCloses ==
  \/ MicStopFinish
  \/ CloseWindow
  \/ \E path \in DialogPaths : \E byButton \in BOOLEAN : GearConfirmed(path, byButton)

\* C29: when the notes are replaced by a rescan (after a recording has
\* stopped, after the settings dialog was confirmed) or the window is
\* closed, the text of the selected note has been written to its text file
\* first: after the step the file holds the last in-memory text.
C29_NoEditDiscarded ==
  [][ (InRange /\ Sel.txtPath # EmptyPath /\ ReplacesOrCloses)
        => slurp(fs', Sel.txtPath) = Sel.text ]_vars

====
